---- MODULE Spec2Model ----
(***************************************************************************)
(* Model of the 3I/ATLAS Mission Planner API (src/main.py): the POST       *)
(* /simulate endpoint and the evaluator calculate_mission_parameters.      *)
(*                                                                         *)
(* Strings are sequences of one-character strings, so that parsing,        *)
(* str.replace and the format checks of datetime.fromisoformat are         *)
(* computed and not assumed.  Python floats are modelled by exact rational *)
(* arithmetic over multi-limb naturals (TLC integers are 32 bits wide).    *)
(***************************************************************************)
EXTENDS Integers, Sequences, FiniteSets, TLC

(***************************************************************************)
(* Exact arithmetic standing for the float expressions of the evaluator.   *)
(* A natural is a little-endian sequence of limbs, without a leading zero  *)
(* limb; zero is the empty sequence.                                       *)
(***************************************************************************)
Base == 10000

RECURSIVE BNorm(_)
BNorm(a) ==
    IF a = <<>> THEN <<>>
    ELSE IF a[Len(a)] = 0 THEN BNorm(SubSeq(a, 1, Len(a) - 1))
    ELSE a

RECURSIVE BFromNat(_)
BFromNat(n) ==
    IF n = 0 THEN <<>> ELSE <<n % Base>> \o BFromNat(n \div Base)

RECURSIVE BAddC(_, _, _)
BAddC(a, b, c) ==
    IF a = <<>> /\ b = <<>> THEN (IF c = 0 THEN <<>> ELSE <<c>>)
    ELSE LET x == IF a = <<>> THEN 0 ELSE Head(a)
             y == IF b = <<>> THEN 0 ELSE Head(b)
             s == x + y + c
         IN  <<s % Base>> \o BAddC(IF a = <<>> THEN <<>> ELSE Tail(a),
                                   IF b = <<>> THEN <<>> ELSE Tail(b),
                                   s \div Base)

BAdd(a, b) == BAddC(a, b, 0)

\* a - b for a >= b
RECURSIVE BSubC(_, _, _)
BSubC(a, b, c) ==
    IF a = <<>> THEN <<>>
    ELSE LET y == IF b = <<>> THEN 0 ELSE Head(b)
             s == Head(a) - y - c
         IN  <<IF s < 0 THEN s + Base ELSE s>>
                \o BSubC(Tail(a), IF b = <<>> THEN <<>> ELSE Tail(b),
                         IF s < 0 THEN 1 ELSE 0)

BSub(a, b) == BNorm(BSubC(a, b, 0))

\* -1, 0, 1 as a < b, a = b, a > b
RECURSIVE BCmpHigh(_, _, _)
BCmpHigh(a, b, i) ==
    IF i = 0 THEN 0
    ELSE IF a[i] < b[i] THEN -1
    ELSE IF a[i] > b[i] THEN 1
    ELSE BCmpHigh(a, b, i - 1)

BCmp(a, b) ==
    IF Len(a) < Len(b) THEN -1
    ELSE IF Len(a) > Len(b) THEN 1
    ELSE BCmpHigh(a, b, Len(a))

RECURSIVE BMulLimb(_, _, _)
BMulLimb(a, k, c) ==
    IF a = <<>> THEN (IF c = 0 THEN <<>> ELSE <<c>>)
    ELSE LET s == Head(a) * k + c
         IN  <<s % Base>> \o BMulLimb(Tail(a), k, s \div Base)

RECURSIVE BMul(_, _)
BMul(a, b) ==
    IF a = <<>> \/ b = <<>> THEN <<>>
    ELSE BNorm(BAdd(BMulLimb(a, Head(b), 0), <<0>> \o BMul(a, Tail(b))))

(***************************************************************************)
(* A rational is [neg, num, den] with den > 0; zero is [FALSE, <<>>, <<1>>]. *)
(***************************************************************************)
\* the same value with the common factors Base cancelled
RECURSIVE RReduce(_, _, _)
RReduce(neg, n, d) ==
    IF n = <<>> THEN [neg |-> FALSE, num |-> <<>>, den |-> <<1>>]
    ELSE IF Head(n) = 0 /\ Head(d) = 0 THEN RReduce(neg, Tail(n), Tail(d))
    ELSE [neg |-> neg, num |-> n, den |-> d]

Rat(n, d) == RReduce(n < 0, BFromNat(IF n < 0 THEN -n ELSE n), BFromNat(d))

RNeg(x) == [x EXCEPT !.neg = (x.num # <<>>) /\ ~x.neg]

\* -1, 0, 1 as x < y, x = y, x > y
RCmp(x, y) ==
    IF x.neg # y.neg THEN (IF x.neg THEN -1 ELSE 1)
    ELSE LET c == BCmp(BMul(x.num, y.den), BMul(y.num, x.den))
         IN  IF x.neg THEN -c ELSE c

RLt(x, y) == RCmp(x, y) < 0
RLe(x, y) == RCmp(x, y) <= 0
REq(x, y) == RCmp(x, y) = 0

RAdd(x, y) ==
    LET a == BMul(x.num, y.den)
        b == BMul(y.num, x.den)
        d == BMul(x.den, y.den)
        c == BCmp(a, b)
    IN  IF x.neg = y.neg THEN RReduce(x.neg, BAdd(a, b), d)
        ELSE IF c >= 0 THEN RReduce(x.neg, BSub(a, b), d)
        ELSE RReduce(y.neg, BSub(b, a), d)

RSub(x, y) == RAdd(x, RNeg(y))

RMul(x, y) == RReduce(x.neg # y.neg, BMul(x.num, y.num), BMul(x.den, y.den))

\* x / y for y # 0
RDiv(x, y) == RReduce(x.neg # y.neg, BMul(x.num, y.den), BMul(x.den, y.num))

RMax(x, y) == IF RLt(x, y) THEN y ELSE x
RMin(x, y) == IF RLt(y, x) THEN y ELSE x
RAbs(x) == [x EXCEPT !.neg = FALSE]

(***************************************************************************)
(* Strings: sequences of one-character strings.                            *)
(***************************************************************************)
Digits == <<"0", "1", "2", "3", "4", "5", "6", "7", "8", "9">>

IsDigit(c) == \E i \in 1..10 : Digits[i] = c

DigitVal(c) == (CHOOSE i \in 1..10 : Digits[i] = c) - 1

\* the decimal value of a non-empty all-digit string, -1 for anything else
RECURSIVE ParseNat(_, _)
ParseNat(s, acc) ==
    IF s = <<>> THEN acc
    ELSE IF ~IsDigit(Head(s)) THEN -1
    ELSE ParseNat(Tail(s), acc * 10 + DigitVal(Head(s)))

ParseInt(s) == IF s = <<>> THEN -1 ELSE ParseNat(s, 0)

\* str.replace(old, new) for one-character old and new
RECURSIVE Replace(_, _, _)
Replace(s, old, new) ==
    IF s = <<>> THEN <<>>
    ELSE <<IF Head(s) = old THEN new ELSE Head(s)>> \o Replace(Tail(s), old, new)

\* index of the first character of s that is in cs, 0 when there is none
FindFirst(s, cs) ==
    IF \E i \in 1..Len(s) : s[i] \in cs
    THEN CHOOSE i \in 1..Len(s) : s[i] \in cs /\ \A j \in 1..(i - 1) : s[j] \notin cs
    ELSE 0

(***************************************************************************)
(* datetime: the proleptic Gregorian calendar of the standard library.     *)
(***************************************************************************)
IsLeap(y) == (y % 4 = 0) /\ ((y % 100 # 0) \/ (y % 400 = 0))

DaysInMonth(y, m) ==
    IF m = 2 THEN (IF IsLeap(y) THEN 29 ELSE 28)
    ELSE IF m \in {4, 6, 9, 11} THEN 30 ELSE 31

RECURSIVE DaysBeforeMonth(_, _)
DaysBeforeMonth(y, m) ==
    IF m = 1 THEN 0 ELSE DaysBeforeMonth(y, m - 1) + DaysInMonth(y, m - 1)

\* date.toordinal(): 0001-01-01 is day 1
ToOrdinal(y, m, d) ==
    LET p == y - 1
    IN  p * 365 + p \div 4 - p \div 100 + p \div 400 + DaysBeforeMonth(y, m) + d

NoDate == [ok |-> FALSE]

DateTime(y, mo, d, h, mi, s, aw) ==
    [ok |-> TRUE, year |-> y, month |-> mo, day |-> d,
     hour |-> h, minute |-> mi, second |-> s, aware |-> aw]

\* the time part HH[:MM[:SS]]: <<h, m, s>>, or <<-1, -1, -1>> when malformed
ParseTime(t) ==
    LET bad == <<-1, -1, -1>>
        h   == IF Len(t) >= 2 THEN ParseInt(SubSeq(t, 1, 2)) ELSE -1
        mi  == IF Len(t) >= 5 THEN ParseInt(SubSeq(t, 4, 5)) ELSE -1
        s   == IF Len(t) = 8 THEN ParseInt(SubSeq(t, 7, 8)) ELSE -1
    IN  IF Len(t) = 2 THEN (IF h \in 0..23 THEN <<h, 0, 0>> ELSE bad)
        ELSE IF Len(t) = 5
             THEN (IF t[3] = ":" /\ h \in 0..23 /\ mi \in 0..59 THEN <<h, mi, 0>> ELSE bad)
        ELSE IF Len(t) = 8
             THEN (IF t[3] = ":" /\ t[6] = ":" /\ h \in 0..23 /\ mi \in 0..59 /\ s \in 0..59
                   THEN <<h, mi, s>> ELSE bad)
        ELSE bad

\* the UTC offset HH:MM that follows the sign
ValidOffset(z) ==
    /\ Len(z) = 5
    /\ z[3] = ":"
    /\ ParseInt(SubSeq(z, 1, 2)) \in 0..23
    /\ ParseInt(SubSeq(z, 4, 5)) \in 0..59

\* datetime.fromisoformat(s): YYYY-MM-DD[*HH[:MM[:SS]][(+|-)HH:MM]]; NoDate
\* stands for the ValueError it raises.  A string with a UTC offset gives an
\* aware datetime, any other a naive one.
FromIsoFormat(s) ==
    IF Len(s) < 10 \/ s[5] # "-" \/ s[8] # "-" THEN NoDate
    ELSE LET y  == ParseInt(SubSeq(s, 1, 4))
             mo == ParseInt(SubSeq(s, 6, 7))
             d  == ParseInt(SubSeq(s, 9, 10))
         IN  IF y < 1 \/ mo \notin 1..12 THEN NoDate
             ELSE IF d < 1 \/ d > DaysInMonth(y, mo) THEN NoDate
             ELSE IF Len(s) = 10 THEN DateTime(y, mo, d, 0, 0, 0, FALSE)
             ELSE IF Len(s) = 11 THEN NoDate
             ELSE LET r  == SubSeq(s, 12, Len(s))
                      z  == FindFirst(r, {"+", "-"})
                      t  == IF z = 0 THEN r ELSE SubSeq(r, 1, z - 1)
                      tm == ParseTime(t)
                  IN  IF tm[1] < 0 THEN NoDate
                      ELSE IF z = 0 THEN DateTime(y, mo, d, tm[1], tm[2], tm[3], FALSE)
                      ELSE IF ValidOffset(SubSeq(r, z + 1, Len(r)))
                           THEN DateTime(y, mo, d, tm[1], tm[2], tm[3], TRUE)
                           ELSE NoDate

SecondsPerDay == 86400

SecondOfDay(dt) == dt.hour * 3600 + dt.minute * 60 + dt.second

\* (a - b).days for two naive datetimes: timedelta keeps 0 <= seconds < 86400,
\* so days is the floor of the difference in days
TimedeltaDays(a, b) ==
    (ToOrdinal(a.year, a.month, a.day) - ToOrdinal(b.year, b.month, b.day))
        + ((SecondOfDay(a) - SecondOfDay(b)) \div SecondsPerDay)

Abs(n) == IF n < 0 THEN -n ELSE n

(***************************************************************************)
(* Number formatting of the log lines.                                     *)
(***************************************************************************)
\* the smallest power of two p with p * d > n
RECURSIVE PowerAbove(_, _, _)
PowerAbove(n, d, p) ==
    IF BCmp(BMul(BFromNat(p), d), n) > 0 THEN p ELSE PowerAbove(n, d, 2 * p)

\* the k in lo..(hi - 1) with k * d <= n < (k + 1) * d
RECURSIVE Bisect(_, _, _, _)
Bisect(n, d, lo, hi) ==
    IF hi - lo <= 1 THEN lo
    ELSE LET mid == (lo + hi) \div 2
         IN  IF BCmp(BMul(BFromNat(mid), d), n) > 0
             THEN Bisect(n, d, lo, mid)
             ELSE Bisect(n, d, mid, hi)

\* floor of a rational x >= 0
RFloor(x) == Bisect(x.num, x.den, 0, PowerAbove(x.num, x.den, 1))

\* x >= 0 rounded to the nearest integer, ties to even
RRound(x) ==
    LET k == RFloor(x)
        c == RCmp(RSub(x, Rat(k, 1)), Rat(1, 2))
    IN  IF c < 0 THEN k
        ELSE IF c > 0 THEN k + 1
        ELSE IF k % 2 = 0 THEN k ELSE k + 1

\* f"{x:.1f}": the number of tenths printed
FormatTenths(x) == RRound(RMul(x, Rat(10, 1)))

\* f"{x:.1%}": the number of tenths of a percent printed
FormatPercentTenths(x) == RRound(RMul(x, Rat(1000, 1)))

\* str.title() on the enum values
Title(s) ==
    CASE s = "chemical"   -> "Chemical"
      [] s = "ion"        -> "Ion"
      [] s = "solar-sail" -> "Solar-Sail"
      [] s = "small"      -> "Small"
      [] s = "medium"     -> "Medium"
      [] s = "large"      -> "Large"

(***************************************************************************)
(* Pydantic models                                                         *)
(***************************************************************************)
PropulsionTypes == {"chemical", "ion", "solar-sail"}

PayloadSizes == {"small", "medium", "large"}

\* MissionParameters(**body) succeeds
ValidParameters(body) ==
    /\ body.propulsion_type \in PropulsionTypes
    /\ body.payload_size \in PayloadSizes

(***************************************************************************)
(* calculate_mission_parameters                                            *)
(***************************************************************************)
ATLAS_VELOCITY == Rat(60, 1)
EARTH_ORBITAL_VELOCITY == Rat(30, 1)
OPTIMAL_LAUNCH_DATE == DateTime(2025, 10, 30, 10, 0, 0, FALSE)
ATLAS_PERIHELION_DISTANCE == Rat(14, 10)
ATLAS_CLOSEST_EARTH_DISTANCE == Rat(18, 10)

\* the ion success modifier with the wrong sign
propulsion_modifiers_IonBonus ==
    [p \in PropulsionTypes |->
        CASE p = "chemical" ->
               [delta_v_mult |-> Rat(10, 10), time_mult |-> Rat(8, 10),
                success_mod |-> Rat(-4, 10), fuel_efficiency |-> Rat(3, 10),
                max_delta_v |-> Rat(15, 1)]
          [] p = "ion" ->
               [delta_v_mult |-> Rat(7, 10), time_mult |-> Rat(15, 10),
                success_mod |-> Rat(2, 10), fuel_efficiency |-> Rat(8, 10),
                max_delta_v |-> Rat(25, 1)]
          [] p = "solar-sail" ->
               [delta_v_mult |-> Rat(4, 10), time_mult |-> Rat(30, 10),
                success_mod |-> Rat(-6, 10), fuel_efficiency |-> Rat(10, 10),
                max_delta_v |-> Rat(10, 1)]]

propulsion_modifiers ==
    [p \in PropulsionTypes |->
        CASE p = "chemical" ->
               [delta_v_mult |-> Rat(10, 10), time_mult |-> Rat(8, 10),
                success_mod |-> Rat(-4, 10), fuel_efficiency |-> Rat(3, 10),
                max_delta_v |-> Rat(15, 1)]
          [] p = "ion" ->
               [delta_v_mult |-> Rat(7, 10), time_mult |-> Rat(15, 10),
                success_mod |-> Rat(-2, 10), fuel_efficiency |-> Rat(8, 10),
                max_delta_v |-> Rat(25, 1)]
          [] p = "solar-sail" ->
               [delta_v_mult |-> Rat(4, 10), time_mult |-> Rat(30, 10),
                success_mod |-> Rat(-6, 10), fuel_efficiency |-> Rat(10, 10),
                max_delta_v |-> Rat(10, 1)]]

payload_modifiers ==
    [p \in PayloadSizes |->
        CASE p = "small" ->
               [delta_v_mult |-> Rat(9, 10), time_mult |-> Rat(9, 10),
                success_mod |-> Rat(1, 10)]
          [] p = "medium" ->
               [delta_v_mult |-> Rat(10, 10), time_mult |-> Rat(10, 10),
                success_mod |-> Rat(0, 10)]
          [] p = "large" ->
               [delta_v_mult |-> Rat(13, 10), time_mult |-> Rat(13, 10),
                success_mod |-> Rat(-1, 10)]]

\* the fallback taken as the optimal day at midnight
ParseLaunchDate_Midnight(raw) ==
    LET parsed == FromIsoFormat(Replace(raw, "T", " "))
    IN  IF parsed.ok THEN parsed ELSE DateTime(2025, 10, 30, 0, 0, 0, FALSE)

\* lines 96-99: the parsed date, or the optimal date when parsing raises
ParseLaunchDate(raw) ==
    LET parsed == FromIsoFormat(Replace(raw, "T", " "))
    IN  IF parsed.ok THEN parsed ELSE OPTIMAL_LAUNCH_DATE

\* line 101 raises TypeError when one operand is aware and the other naive
SubtractionRaises(launch_date) == launch_date.aware # OPTIMAL_LAUNCH_DATE.aware

DaysDiff(launch_date) == Abs(TimedeltaDays(launch_date, OPTIMAL_LAUNCH_DATE))

TimeFromPerihelion(days_diff) == RDiv(Rat(days_diff, 1), Rat(36525, 100))

CurrentDistance(time_from_perihelion) ==
    RAdd(ATLAS_PERIHELION_DISTANCE, RMul(RAbs(time_from_perihelion), Rat(2, 1)))

\* current_distance - ATLAS_CLOSEST_EARTH_DISTANCE, as lines 106-108 use it
DistanceExcess(current_distance) ==
    RSub(current_distance, ATLAS_CLOSEST_EARTH_DISTANCE)

BaseDeltaV(excess) == RAdd(Rat(15, 1), RMul(excess, Rat(5, 1)))

BaseTravelTime(excess) == RAdd(Rat(2, 1), RMul(excess, Rat(15, 10)))

BaseSuccess(excess) ==
    RMax(Rat(5, 100), RSub(Rat(8, 10), RMul(excess, Rat(2, 10))))

DatePenalty(days_diff) == RMin(RDiv(Rat(days_diff, 1), Rat(30, 1)), Rat(1, 1))

DeltaV(base_delta_v, prop_mod, payload_mod, date_penalty) ==
    RMul(RMul(RMul(base_delta_v, prop_mod.delta_v_mult), payload_mod.delta_v_mult),
         RAdd(Rat(1, 1), RMul(date_penalty, Rat(2, 10))))

VelocityMatchingRequirement == RSub(ATLAS_VELOCITY, EARTH_ORBITAL_VELOCITY)

\* the velocity-matching term left out
TotalDeltaV_NoMatching(delta_v) == delta_v

TotalDeltaV(delta_v) == RAdd(delta_v, VelocityMatchingRequirement)

TravelTime(base_travel_time, prop_mod, payload_mod, date_penalty) ==
    RMul(RMul(RMul(base_travel_time, prop_mod.time_mult), payload_mod.time_mult),
         RAdd(Rat(1, 1), RMul(date_penalty, Rat(1, 10))))

ExcessDvRatio(total_delta_v, prop_mod) ==
    RMax(Rat(0, 1),
         RDiv(RSub(total_delta_v, prop_mod.max_delta_v), prop_mod.max_delta_v))

\* the date penalty added instead of subtracted
UnclampedSuccess_PlusPenalty(base_success, excess_dv_ratio, prop_mod, payload_mod, date_penalty) ==
    RAdd(RAdd(RAdd(RMul(base_success,
                        RSub(Rat(1, 1), RMul(Rat(5, 10), excess_dv_ratio))),
                   prop_mod.success_mod),
              payload_mod.success_mod),
         RMul(date_penalty, Rat(2, 10)))

\* the argument of the clamp of lines 134-136
UnclampedSuccess(base_success, excess_dv_ratio, prop_mod, payload_mod, date_penalty) ==
    RSub(RAdd(RAdd(RMul(base_success,
                        RSub(Rat(1, 1), RMul(Rat(5, 10), excess_dv_ratio))),
                   prop_mod.success_mod),
              payload_mod.success_mod),
         RMul(date_penalty, Rat(2, 10)))

\* the clamp without its lower limit
Clamp_NoFloor(x) == RMin(Rat(95, 100), x)

Clamp(x) == RMax(Rat(1, 100), RMin(Rat(95, 100), x))

FuelCost(delta_v, prop_mod, payload_mod) ==
    RMul(RMul(delta_v, RDiv(Rat(1, 1), prop_mod.fuel_efficiency)),
         RSub(RAdd(Rat(1, 1), payload_mod.delta_v_mult), Rat(1, 1)))

HardFailure(launch_date) == launch_date.year > 2026

\* the thresholds compared the wrong way round
StatusOf_Reversed(success_probability) ==
    IF RLe(success_probability, Rat(8, 10)) THEN "success"
    ELSE IF RLe(success_probability, Rat(6, 10)) THEN "warning"
    ELSE "failure"

\* lines 148-153
StatusOf(success_probability) ==
    IF RLe(Rat(8, 10), success_probability) THEN "success"
    ELSE IF RLe(Rat(6, 10), success_probability) THEN "warning"
    ELSE "failure"

LogLine(label, value) == [label |-> label, value |-> value]

\* the override log echoing the normalised date string instead of the raw one
ImpossibleLog_Normalised(params) ==
    << LogLine("Mission IMPOSSIBLE: Launch after 2026", <<>>),
       LogLine("Launch date: ", Replace(params.launch_date, "T", " ")) >>

ImpossibleLog(params) ==
    << LogLine("Mission IMPOSSIBLE: Launch after 2026", <<>>),
       LogLine("Launch date: ", params.launch_date) >>

NormalLog(params, travel_time, total_delta_v, fuel_cost, success_probability) ==
    << LogLine("Launch date: ", params.launch_date),
       LogLine("Propulsion: ", Title(params.propulsion_type)),
       LogLine("Payload: ", Title(params.payload_size)),
       LogLine("Estimated travel time: ", FormatTenths(travel_time)),
       LogLine("Total dV required: ", FormatTenths(total_delta_v)),
       LogLine("Fuel cost estimate: ", FormatTenths(fuel_cost)),
       LogLine("Success probability: ", FormatPercentTenths(success_probability)) >>

\* lines 101-138: the figures computed from days_diff and the two enum values
Figures(days_diff, prop, payload) ==
    LET time_from_perihelion == TimeFromPerihelion(days_diff)
        current_distance == CurrentDistance(time_from_perihelion)
        excess == DistanceExcess(current_distance)
        base_delta_v == BaseDeltaV(excess)
        base_travel_time == BaseTravelTime(excess)
        base_success == BaseSuccess(excess)
        prop_mod == propulsion_modifiers[prop]
        payload_mod == payload_modifiers[payload]
        date_penalty == DatePenalty(days_diff)
        delta_v == DeltaV(base_delta_v, prop_mod, payload_mod, date_penalty)
        total_delta_v == TotalDeltaV(delta_v)
        travel_time == TravelTime(base_travel_time, prop_mod, payload_mod, date_penalty)
        excess_dv_ratio == ExcessDvRatio(total_delta_v, prop_mod)
        unclamped == UnclampedSuccess(base_success, excess_dv_ratio, prop_mod,
                                      payload_mod, date_penalty)
    IN  [days_diff |-> days_diff,
         date_penalty |-> date_penalty,
         delta_v |-> delta_v,
         total_delta_v |-> total_delta_v,
         travel_time |-> travel_time,
         unclamped |-> unclamped,
         success_probability |-> Clamp(unclamped),
         fuel_cost |-> FuelCost(delta_v, prop_mod, payload_mod)]

\* the override branch with its status misspelt
Outcome_Misspelt(params, launch_date, f) ==
    IF HardFailure(launch_date)
    THEN [travel_time |-> f.travel_time,
          delta_v |-> f.delta_v,
          success_probability |-> Rat(0, 1),
          fuel_cost |-> f.fuel_cost,
          mission_status |-> "failed",
          mission_log |-> ImpossibleLog(params)]
    ELSE [travel_time |-> f.travel_time,
          delta_v |-> f.delta_v,
          success_probability |-> f.success_probability,
          fuel_cost |-> f.fuel_cost,
          mission_status |-> StatusOf(f.success_probability),
          mission_log |-> NormalLog(params, f.travel_time, f.total_delta_v,
                                    f.fuel_cost, f.success_probability)]

\* lines 140-172: the override, the status, the log and the value returned
Outcome(params, launch_date, f) ==
    IF HardFailure(launch_date)
    THEN [travel_time |-> f.travel_time,
          delta_v |-> f.delta_v,
          success_probability |-> Rat(0, 1),
          fuel_cost |-> f.fuel_cost,
          mission_status |-> "failure",
          mission_log |-> ImpossibleLog(params)]
    ELSE [travel_time |-> f.travel_time,
          delta_v |-> f.delta_v,
          success_probability |-> f.success_probability,
          fuel_cost |-> f.fuel_cost,
          mission_status |-> StatusOf(f.success_probability),
          mission_log |-> NormalLog(params, f.travel_time, f.total_delta_v,
                                    f.fuel_cost, f.success_probability)]

\* The call calculate_mission_parameters(params): raised is TRUE when the
\* call ends in an exception; otherwise results is the MissionResults
\* returned and locals holds local variables as they are at the return.
CalculateMissionParameters(params) ==
    LET launch_date == ParseLaunchDate(params.launch_date)
    IN  IF SubtractionRaises(launch_date)
        THEN [raised |-> TRUE, error |-> "TypeError"]
        ELSE LET f == Figures(DaysDiff(launch_date), params.propulsion_type,
                              params.payload_size)
             IN  [raised |-> FALSE,
                  results |-> Outcome(params, launch_date, f),
                  locals |-> [launch_date |-> launch_date,
                              days_diff |-> f.days_diff,
                              date_penalty |-> f.date_penalty,
                              total_delta_v |-> f.total_delta_v,
                              unclamped |-> f.unclamped]]

(***************************************************************************)
(* The requests sent to POST /simulate.                                    *)
(***************************************************************************)
YearsBack == 2
YearsAhead == 2

Years == (2025 - YearsBack)..(2025 + YearsAhead)
Months == {2, 10, 11}
DaysOfMonth == {1, 15, 29, 30, 31}

Pad2(n) == <<Digits[((n \div 10) % 10) + 1], Digits[(n % 10) + 1]>>
Pad4(n) == Pad2(n \div 100) \o Pad2(n % 100)

DateStrings ==
    { Pad4(y) \o <<"-">> \o Pad2(m) \o <<"-">> \o Pad2(d) :
        y \in Years, m \in Months, d \in DaysOfMonth }

TimeSuffixes ==
    { <<>>,
      <<"T", "1", "0", ":", "0", "0", ":", "0", "0">>,
      <<"T", "0", "9", ":", "5", "9", ":", "5", "9">>,
      <<" ", "2", "0", ":", "3", "0">>,
      <<"T", "1", "0", ":", "0", "0", ":", "0", "0", "+", "0", "0", ":", "0", "0">> }

NotADate == <<"n", "o", "t", "-", "a", "-", "d", "a", "t", "e">>

LaunchDates ==
    { d \o t : d \in DateStrings, t \in TimeSuffixes }
        \cup { NotADate, <<>>, <<"2", "0", "2", "7">> }

Parameters(d, p, s) == [launch_date |-> d, propulsion_type |-> p, payload_size |-> s]

Bodies ==
    { Parameters(d, p, s) : d \in LaunchDates, p \in PropulsionTypes, s \in PayloadSizes }
        \cup { Parameters(NotADate, "nuclear", "small"),
               Parameters(NotADate, "ion", "huge") }

NoRequest == Parameters(<<>>, "", "")
NoResponse == [status |-> 0]
NoCall == [raised |-> FALSE, pending |-> TRUE]

(***************************************************************************)
(* State: one request at a time through POST /simulate.  call is the       *)
(* outcome of the last call of calculate_mission_parameters.               *)
(***************************************************************************)
VARIABLES phase, request, response, call

vars == <<phase, request, response, call>>

Init ==
    /\ phase = "idle"
    /\ request = NoRequest
    /\ response = NoResponse
    /\ call = NoCall

\* a client posts a JSON body
Post(b) ==
    /\ phase = "idle"
    /\ phase' = "received"
    /\ request' = b
    /\ UNCHANGED <<response, call>>

\* the body does not validate as MissionParameters
RejectBody ==
    /\ phase = "received"
    /\ ~ValidParameters(request)
    /\ phase' = "responded"
    /\ response' = [status |-> 422]
    /\ UNCHANGED <<request, call>>

\* simulate_mission(parameters)
SimulateMission ==
    /\ phase = "received"
    /\ ValidParameters(request)
    /\ call' = CalculateMissionParameters(request)
    /\ response' = IF call'.raised
                   THEN [status |-> 400, detail |-> "Simulation failed"]
                   ELSE [status |-> 200, results |-> call'.results]
    /\ phase' = "responded"
    /\ UNCHANGED request

\* the response is sent; nothing is kept between requests
Finish ==
    /\ phase = "responded"
    /\ phase' = "idle"
    /\ request' = NoRequest
    /\ response' = NoResponse
    /\ call' = NoCall

Next ==
    \/ \E b \in Bodies : Post(b)
    \/ RejectBody
    \/ SimulateMission
    \/ Finish

Spec == Init /\ [][Next]_vars

(***************************************************************************)
(* Properties                                                              *)
(***************************************************************************)
\* calculate_mission_parameters has returned a MissionResults
Returned == phase = "responded" /\ response.status = 200

Results == response.results
Locals == call.locals
LaunchYear == call.locals.launch_date.year

OptimalString ==
    <<"2", "0", "2", "5", "-", "1", "0", "-", "3", "0",
      "T", "1", "0", ":", "0", "0", ":", "0", "0">>

\* the request's launch_date makes datetime.fromisoformat raise
Unparseable == ~FromIsoFormat(Replace(request.launch_date, "T", " ")).ok

\* C1: a returned success_probability lies in [0.01, 0.95] when the parsed
\* launch year is at most 2026 and is exactly 0 when it is later.
C1_SuccessProbabilityRange ==
    Returned =>
        IF LaunchYear > 2026
        THEN REq(Results.success_probability, Rat(0, 1))
        ELSE /\ RLe(Rat(1, 100), Results.success_probability)
             /\ RLe(Results.success_probability, Rat(95, 100))

C1_Witness ==
    /\ Returned
    /\ LaunchYear <= 2026
    /\ RLt(Locals.unclamped, Rat(1, 100))
    /\ REq(Results.success_probability, Rat(1, 100))

\* C2: when the parsed launch year exceeds 2026 the returned mission_status
\* is "failure", for every propulsion type and payload size.
C2_LateLaunchFails ==
    (Returned /\ LaunchYear > 2026) => Results.mission_status = "failure"

C2_Witness ==
    /\ Returned
    /\ LaunchYear > 2026
    /\ request.propulsion_type = "ion"
    /\ request.payload_size = "small"
    /\ Results.mission_status = "failure"

\* C3: with valid enum values the evaluator never fails, whatever the
\* launch_date string: POST /simulate never answers 400.
C3_NeverFails ==
    (phase = "responded" /\ ValidParameters(request)) => response.status = 200

\* C4: an unparseable launch_date is evaluated as the optimal instant:
\* days_diff and date_penalty are 0, the override is not taken, and every
\* result but the echoed date line equals the result for
\* "2025-10-30T10:00:00" with the same propulsion type and payload size.
C4_FallbackEqualsOptimal ==
    (Returned /\ Unparseable) =>
        LET o == CalculateMissionParameters(
                     Parameters(OptimalString, request.propulsion_type,
                                request.payload_size)).results
        IN  /\ Locals.days_diff = 0
            /\ REq(Locals.date_penalty, Rat(0, 1))
            /\ Locals.launch_date = OPTIMAL_LAUNCH_DATE
            /\ Len(Results.mission_log) = 7
            /\ REq(Results.travel_time, o.travel_time)
            /\ REq(Results.delta_v, o.delta_v)
            /\ REq(Results.fuel_cost, o.fuel_cost)
            /\ REq(Results.success_probability, o.success_probability)
            /\ Results.mission_status = o.mission_status
            /\ Results.mission_log[1] = LogLine("Launch date: ", request.launch_date)
            /\ SubSeq(Results.mission_log, 2, 7) = SubSeq(o.mission_log, 2, 7)

C4_Witness ==
    /\ Returned
    /\ request.launch_date = NotADate
    /\ Locals.days_diff = 0

\* C5: when the parsed launch year is at most 2026, mission_status is
\* "success" iff success_probability >= 0.8, "warning" iff it is in
\* [0.6, 0.8), and "failure" iff it is below 0.6.
C5_StatusFromThresholds ==
    (Returned /\ LaunchYear <= 2026) =>
        LET sp == Results.success_probability
            st == Results.mission_status
        IN  /\ st \in {"success", "warning", "failure"}
            /\ (st = "success") <=> RLe(Rat(8, 10), sp)
            /\ (st = "warning") <=> (RLe(Rat(6, 10), sp) /\ RLt(sp, Rat(8, 10)))
            /\ (st = "failure") <=> RLt(sp, Rat(6, 10))

C5_Witness ==
    /\ Returned
    /\ LaunchYear <= 2026
    /\ RLt(Rat(1, 100), Results.success_probability)
    /\ Results.mission_status = "failure"

\* the success_probability returned for days_diff = d with a launch year <= 2026
SuccessAt ==
    [d \in 0..30, p \in PropulsionTypes, s \in PayloadSizes |->
        Figures(d, p, s).success_probability]

\* C6: for a fixed propulsion type and payload size, and launch years <= 2026,
\* the success_probability returned for days_diff d2 <= 30 is at most the
\* one returned for any days_diff d1 <= d2.
C6_NonIncreasingInDaysDiff ==
    (Returned /\ LaunchYear <= 2026 /\ Locals.days_diff <= 30) =>
        \A d1 \in 0..Locals.days_diff :
            RLe(Results.success_probability,
                SuccessAt[d1, request.propulsion_type, request.payload_size])

C6_Witness ==
    /\ Returned
    /\ LaunchYear <= 2026
    /\ Locals.days_diff \in 1..30
    /\ RLt(Results.success_probability,
           SuccessAt[0, request.propulsion_type, request.payload_size])

SecondsFromOptimal(dt) ==
    (ToOrdinal(dt.year, dt.month, dt.day)
        - ToOrdinal(OPTIMAL_LAUNCH_DATE.year, OPTIMAL_LAUNCH_DATE.month,
                    OPTIMAL_LAUNCH_DATE.day)) * SecondsPerDay
    + (SecondOfDay(dt) - SecondOfDay(OPTIMAL_LAUNCH_DATE))

\* C8: days_diff is the absolute difference in days: a launch instant less
\* than one full day from the optimal instant, on either side, has
\* days_diff = 0.
C8_WithinOneDayIsZero ==
    (Returned /\ Abs(SecondsFromOptimal(Locals.launch_date)) < SecondsPerDay) =>
        Locals.days_diff = 0

\* C9: the mission_log has exactly 2 entries when the parsed launch year
\* exceeds 2026 (the impossible message, then the raw launch_date), and
\* otherwise exactly 7 entries in the order launch date, propulsion, payload,
\* travel time, total delta-v, fuel cost, success probability.
C9_LogShape ==
    Returned =>
        LET log == Results.mission_log
        IN  IF LaunchYear > 2026
            THEN /\ Len(log) = 2
                 /\ log[1].label = "Mission IMPOSSIBLE: Launch after 2026"
                 /\ log[2] = LogLine("Launch date: ", request.launch_date)
            ELSE /\ Len(log) = 7
                 /\ [i \in 1..7 |-> log[i].label] =
                        << "Launch date: ", "Propulsion: ", "Payload: ",
                           "Estimated travel time: ", "Total dV required: ",
                           "Fuel cost estimate: ", "Success probability: " >>
                 /\ log[1].value = request.launch_date

C9_Witness ==
    /\ Returned
    /\ LaunchYear > 2026
    /\ \E i \in 1..Len(request.launch_date) : request.launch_date[i] = "T"
    /\ Len(Results.mission_log) = 2

\* C10: "success" and "warning" are unreachable: every returned
\* success_probability is below 0.6 with mission_status "failure", and for
\* chemical and solar-sail propulsion with launch year <= 2026 it is
\* exactly 0.01.
C10_OnlyFailure ==
    Returned =>
        /\ RLt(Results.success_probability, Rat(6, 10))
        /\ Results.mission_status = "failure"
        /\ (request.propulsion_type \in {"chemical", "solar-sail"} /\ LaunchYear <= 2026)
              => REq(Results.success_probability, Rat(1, 100))

C10_Witness ==
    /\ Returned
    /\ request.propulsion_type = "ion"
    /\ request.payload_size = "small"
    /\ Locals.days_diff = 0
    /\ RLt(Rat(5, 10), Results.success_probability)
====
